---- MODULE Spec2Model ----
(***************************************************************************)
(* The workflow editor of frontend/app/tools/workflow/page.tsx             *)
(* (WorkflowEditorContent): its React state, its event handlers and the    *)
(* continuations of its three kinds of network round trip.                 *)
(*                                                                         *)
(* A node id is the string `${type}-${Date.now()}` (palette drop) or       *)
(* `input_file-${Date.now()}-${index}` (upload import); it is modelled as  *)
(* the tuple <<type, t>>, respectively <<type, t, index>>.  User-visible   *)
(* messages are modelled as records [kind, ...] holding the values the     *)
(* template string interpolates.                                           *)
(***************************************************************************)
EXTENDS Integers, Sequences, FiniteSets, TLC

VARIABLES
    nodes,            \* useNodesState: the list of nodes
    edges,            \* useEdgesState: the list of edges
    selectedNode,     \* the Node object captured by the last click, or Null
    workflowName,
    workflowId,       \* id of the saved workflow, or NullId
    isExecuting,
    executionResult,  \* the payload of the last execute response, or Null
    uploadedFiles,    \* the number of uploaded files (uploadedFiles.length)
    connectionError,  \* the message shown for a rejected connection, or Null
    pending,          \* the requests in flight, oldest first
    service           \* the remote workflow service: workflow id -> record

vars == <<nodes, edges, selectedNode, workflowName, workflowId, isExecuting,
          executionResult, uploadedFiles, connectionError, pending, service>>

----------------------------------------------------------------------------
\* Bounds of the model.

MaxNodes == 3          \* nodes on the canvas
MaxEdges == 3          \* edges on the canvas
MaxFiles == 1          \* files handed over or uploaded at once
MaxPending == 2        \* requests in flight at once
MaxPersistNodes == 2   \* nodes dropped onto a canvas that is saved and loaded
MaxSaved == 1          \* workflows the service creates in a session

Null == [kind |-> "null"]
NullId == <<>>
DefaultName == "new workflow"
LoadedName == "loaded workflow"

----------------------------------------------------------------------------
\* The static tables.

\* connectionRules: maxInputs / maxOutputs of -1 mean unlimited.
Rule(i, o, mi, mo) ==
    [canHaveInput |-> i, canHaveOutput |-> o, maxInputs |-> mi, maxOutputs |-> mo]

RuleTypes ==
    {"input_file", "input_folder", "pdf_merge", "pdf_split", "pdf_compress",
     "pdf_watermark", "pdf_encrypt", "ai_compare", "ai_pii_detect",
     "ai_extract_table", "ai_smart_rename", "ai_summarize", "ai_translate",
     "convert_to_image", "output_save"}

connectionRules ==
    [ty \in RuleTypes |->
        CASE ty \in {"input_file", "input_folder"} -> Rule(FALSE, TRUE, 0, -1)
          [] ty = "pdf_merge"                      -> Rule(TRUE, TRUE, -1, -1)
          [] ty = "ai_compare"                     -> Rule(TRUE, TRUE, 2, -1)
          [] ty = "output_save"                    -> Rule(TRUE, FALSE, -1, 0)
          [] OTHER                                 -> Rule(TRUE, TRUE, 1, -1)]

\* `connectionRules[type]` is undefined for a type without an entry.
HasRule(ty) == ty \in DOMAIN connectionRules

\* nodeTypeDefinitions: the palette; every palette type has a rule.
DefinedTypes == RuleTypes

\* The label and category a definition gives its type.
DefLabel(ty) ==
    CASE ty = "input_file"       -> "File input"
      [] ty = "input_folder"     -> "Folder input"
      [] ty = "pdf_merge"        -> "Merge PDF"
      [] ty = "pdf_split"        -> "Split PDF"
      [] ty = "pdf_compress"     -> "Compress PDF"
      [] ty = "pdf_watermark"    -> "Add watermark"
      [] ty = "pdf_encrypt"      -> "Encrypt PDF"
      [] ty = "ai_compare"       -> "AI contract compare"
      [] ty = "ai_pii_detect"    -> "AI PII detect"
      [] ty = "ai_extract_table" -> "AI table extract"
      [] ty = "ai_smart_rename"  -> "AI smart rename"
      [] ty = "ai_summarize"     -> "AI summarize"
      [] ty = "ai_translate"     -> "AI translate"
      [] ty = "convert_to_image" -> "Convert to image"
      [] ty = "output_save"      -> "Save file"

DefCategory(ty) ==
    CASE ty \in {"input_file", "input_folder"} -> "input"
      [] ty \in {"pdf_merge", "pdf_split", "pdf_compress", "pdf_watermark",
                 "pdf_encrypt"}                -> "pdf"
      [] ty = "convert_to_image"               -> "convert"
      [] ty = "output_save"                    -> "output"
      [] OTHER                                 -> "ai"

\* The palette types the model drops: one type of each shape of rule
\* (no input; at most one and at most two inputs; no output, any number of
\* inputs).
PaletteTypes == {"input_file", "pdf_split", "ai_compare", "output_save"}

\* Where a node is dropped (clientX - left, clientY - top).
DropPoints == {[x |-> 0, y |-> 0]}

----------------------------------------------------------------------------
\* Helpers over the lists.

Range(s) == {s[i] : i \in DOMAIN s}

RECURSIVE Filter(_, _)
\* Array.prototype.filter with the predicate given as a set of kept elements.
Filter(s, keep) ==
    IF s = <<>> THEN <<>>
    ELSE IF Head(s) \in keep THEN <<Head(s)>> \o Filter(Tail(s), keep)
         ELSE Filter(Tail(s), keep)

\* nodes.find(n => n.id === id): the first node with that id, or Null.
FindNode(id) ==
    IF \E i \in DOMAIN nodes : nodes[i].id = id
    THEN nodes[CHOOSE i \in DOMAIN nodes :
                  /\ nodes[i].id = id
                  /\ \A j \in DOMAIN nodes : nodes[j].id = id => i <= j]
    ELSE Null

\* edges.filter(e => e.target === target).length
InputCount(target) == Cardinality({i \in DOMAIN edges : edges[i].target = target})

\* The search for an existing edge with the endpoints swapped.
ExistingEdgeSwapped(source, target) ==
    \E i \in DOMAIN edges : edges[i].source = target /\ edges[i].target = source

\* edges.find(e => e.source === source && e.target === target) is defined
ExistingEdge(source, target) ==
    \E i \in DOMAIN edges : edges[i].source = source /\ edges[i].target = target

----------------------------------------------------------------------------
\* The rejection messages of validateConnection.

ErrNotFound == [kind |-> "node not found"]
ErrNoOutput(label) == [kind |-> "cannot be an output source", label |-> label]
ErrNoInput(label) == [kind |-> "cannot receive input", label |-> label]
ErrAiCompare(count) == [kind |-> "ai_compare inputs connected", count |-> count, most |-> 2]
ErrMaxInputs(label, maxInputs) == [kind |-> "max inputs reached", label |-> label, most |-> maxInputs]
ErrSelf == [kind |-> "cannot connect to itself"]
ErrDuplicate == [kind |-> "connection exists"]
ErrFallback == [kind |-> "cannot connect"]

Valid == [valid |-> TRUE, error |-> Null]
Invalid(error) == [valid |-> FALSE, error |-> error]

\* The check of the source made against the rule's other flag.
CannotOutputByInputFlag(sourceType) ==
    HasRule(sourceType) /\ ~connectionRules[sourceType].canHaveInput

\* if (sourceRule && !sourceRule.canHaveOutput)
CannotOutput(sourceType) ==
    HasRule(sourceType) /\ ~connectionRules[sourceType].canHaveOutput

\* The check of the target written as !targetRule?.canHaveInput.
CannotInputWithoutRule(targetType) ==
    ~(HasRule(targetType) /\ connectionRules[targetType].canHaveInput)

\* if (targetRule && !targetRule.canHaveInput)
CannotInput(targetType) ==
    HasRule(targetType) /\ ~connectionRules[targetType].canHaveInput

\* The limit compared with > where the code has >=.
InputsFullOffByOne(targetType, target) ==
    /\ HasRule(targetType)
    /\ connectionRules[targetType].maxInputs > 0
    /\ InputCount(target) > connectionRules[targetType].maxInputs

\* if (targetRule && targetRule.maxInputs > 0) and
\* currentInputCount >= targetRule.maxInputs
InputsFull(targetType, target) ==
    /\ HasRule(targetType)
    /\ connectionRules[targetType].maxInputs > 0
    /\ InputCount(target) >= connectionRules[targetType].maxInputs

\* The check of a self-connection left out.
IsSelfNever(source, target) == FALSE

\* if (source === target)
IsSelf(source, target) == source = target

\* validateConnection(source, target) over the current nodes and edges.
validateConnection(source, target) ==
    LET sourceNode == FindNode(source)
        targetNode == FindNode(target)
    IN  IF sourceNode = Null \/ targetNode = Null THEN Invalid(ErrNotFound)
        ELSE
        LET sourceType == sourceNode.data.nodeType
            targetType == targetNode.data.nodeType
        IN  IF CannotOutput(sourceType)
            THEN Invalid(ErrNoOutput(sourceNode.data.label))
            ELSE IF CannotInput(targetType)
            THEN Invalid(ErrNoInput(targetNode.data.label))
            ELSE IF InputsFull(targetType, target)
            THEN IF targetType = "ai_compare"
                 THEN Invalid(ErrAiCompare(InputCount(target)))
                 ELSE Invalid(ErrMaxInputs(targetNode.data.label,
                                           connectionRules[targetType].maxInputs))
            ELSE IF IsSelf(source, target) THEN Invalid(ErrSelf)
            ELSE IF ExistingEdge(source, target) THEN Invalid(ErrDuplicate)
            ELSE Valid

\* The edge built with its endpoints swapped.
addEdgeSwapped(source, target, eds) ==
    IF \E i \in DOMAIN eds : eds[i].source = source /\ eds[i].target = target
    THEN eds
    ELSE Append(eds, [id |-> <<source, target>>, source |-> target, target |-> source])

\* reactflow's addEdge: the connection is appended, with an id made of its
\* endpoints, unless an edge with the same endpoints is already there.
addEdge(source, target, eds) ==
    IF \E i \in DOMAIN eds : eds[i].source = source /\ eds[i].target = target
    THEN eds
    ELSE Append(eds, [id |-> <<source, target>>, source |-> source, target |-> target])

----------------------------------------------------------------------------
\* The event handlers of the canvas.

\* A connection parameter that is null.
NullParam == <<>>
\* An id that names no node.
GhostId == <<"ghost">>

NodeIds == {nodes[i].id : i \in DOMAIN nodes}
ConnectParams == NodeIds \cup {GhostId, NullParam}

\* onConnect without the `return` of its rejection branch.
OnConnectNoReturn(source, target) ==
    /\ IF source = NullParam \/ target = NullParam
       THEN UNCHANGED <<edges, connectionError>>
       ELSE LET validation == validateConnection(source, target)
            IN  /\ connectionError' =
                       (IF validation.valid THEN connectionError ELSE validation.error)
                /\ Len(edges) < MaxEdges
                /\ edges' = addEdge(source, target, edges)
    /\ UNCHANGED <<nodes, selectedNode, workflowName, workflowId, isExecuting,
                   executionResult, uploadedFiles, pending, service>>

\* onConnect(params)
OnConnect(source, target) ==
    /\ IF source = NullParam \/ target = NullParam
       THEN UNCHANGED <<edges, connectionError>>
       ELSE LET validation == validateConnection(source, target)
            IN  IF ~validation.valid
                THEN /\ connectionError' =
                            (IF validation.error = Null THEN ErrFallback
                             ELSE validation.error)
                     /\ UNCHANGED edges
                ELSE /\ Len(edges) < MaxEdges
                     /\ edges' = addEdge(source, target, edges)
                     /\ UNCHANGED connectionError
    /\ UNCHANGED <<nodes, selectedNode, workflowName, workflowId, isExecuting,
                   executionResult, uploadedFiles, pending, service>>

\* The timeout armed by a rejected onConnect, 3000 ms later.  A timeout is
\* pending whenever a message is shown (the one armed with that message); a
\* timeout that fires while no message is shown changes nothing.
ClearConnectionError ==
    /\ connectionError # Null
    /\ connectionError' = Null
    /\ UNCHANGED <<nodes, edges, selectedNode, workflowName, workflowId,
                   isExecuting, executionResult, uploadedFiles, pending, service>>

\* The times of the nodes of `type` that onDrop has put on the canvas.
UsedTimes(type) ==
    {nodes[i].id[2] : i \in {j \in DOMAIN nodes :
                                Len(nodes[j].id) = 2 /\ nodes[j].id[1] = type}}

\* Date.now() at a drop of `type` when the clock has moved on since the
\* earlier drops, up to the equality of the ids it yields: the least time no
\* node of that type on the canvas has.
FreshTimes(type) ==
    {CHOOSE t \in 0..Cardinality(UsedTimes(type)) :
        t \notin UsedTimes(type) /\ \A u \in 0..(t - 1) : u \in UsedTimes(type)}

\* Date.now() at a drop of `type` when the clock has not moved on since the
\* drop before: the time of the last node, if onDrop made it of this type.
SameTimes(type) ==
    IF /\ nodes # <<>>
       /\ Len(nodes[Len(nodes)].id) = 2
       /\ nodes[Len(nodes)].id[1] = type
    THEN {nodes[Len(nodes)].id[2]}
    ELSE {}

\* The node onDrop creates.
NewNode(type, t, position) ==
    [id |-> <<type, t>>,
     position |-> position,
     data |-> [label |-> DefLabel(type), category |-> DefCategory(type),
               nodeType |-> type, description |-> "", params |-> <<>>]]

\* onDrop(event): `type` is the dragged palette type, t is Date.now().
OnDrop(type, t, position) ==
    /\ Len(nodes) < MaxNodes
    /\ nodes' = Append(nodes, NewNode(type, t, position))
    /\ UNCHANGED <<edges, selectedNode, workflowName, workflowId, isExecuting,
                   executionResult, uploadedFiles, connectionError, pending, service>>

\* onNodeClick(_, node)
OnNodeClick(i) ==
    /\ i \in DOMAIN nodes
    /\ selectedNode' = nodes[i]
    /\ UNCHANGED <<nodes, edges, workflowName, workflowId, isExecuting,
                   executionResult, uploadedFiles, connectionError, pending, service>>

\* deleteSelectedNode without its setEdges.
DeleteSelectedNodeKeepingEdges ==
    /\ selectedNode # Null
    /\ nodes' = Filter(nodes, {n \in Range(nodes) : n.id # selectedNode.id})
    /\ selectedNode' = Null
    /\ UNCHANGED <<edges, workflowName, workflowId, isExecuting, executionResult,
                   uploadedFiles, connectionError, pending, service>>

\* deleteSelectedNode with the edges filtered by their source alone.
DeleteSelectedNodeBySource ==
    /\ selectedNode # Null
    /\ nodes' = Filter(nodes, {n \in Range(nodes) : n.id # selectedNode.id})
    /\ edges' = Filter(edges, {e \in Range(edges) : e.source # selectedNode.id})
    /\ selectedNode' = Null
    /\ UNCHANGED <<workflowName, workflowId, isExecuting, executionResult,
                   uploadedFiles, connectionError, pending, service>>

\* deleteSelectedNode()
DeleteSelectedNode ==
    /\ selectedNode # Null
    /\ nodes' = Filter(nodes, {n \in Range(nodes) : n.id # selectedNode.id})
    /\ edges' = Filter(edges, {e \in Range(edges) :
                                  e.source # selectedNode.id /\ e.target # selectedNode.id})
    /\ selectedNode' = Null
    /\ UNCHANGED <<workflowName, workflowId, isExecuting, executionResult,
                   uploadedFiles, connectionError, pending, service>>

\* clearCanvas() going on whatever the answer to window.confirm is.
ClearCanvasUnconfirmed(confirmed) ==
    /\ nodes' = <<>>
    /\ edges' = <<>>
    /\ workflowName' = DefaultName
    /\ workflowId' = NullId
    /\ selectedNode' = Null
    /\ executionResult' = Null
    /\ uploadedFiles' = 0
    /\ UNCHANGED <<isExecuting, connectionError, pending, service>>

\* clearCanvas(): `confirmed` is the answer to window.confirm, asked only
\* when the canvas has nodes.
ClearCanvas(confirmed) ==
    IF Len(nodes) > 0 /\ ~confirmed
    THEN UNCHANGED vars
    ELSE /\ nodes' = <<>>
         /\ edges' = <<>>
         /\ workflowName' = DefaultName
         /\ workflowId' = NullId
         /\ selectedNode' = Null
         /\ executionResult' = Null
         /\ uploadedFiles' = 0
         /\ UNCHANGED <<isExecuting, connectionError, pending, service>>

----------------------------------------------------------------------------
\* The property panel of the selected node.

\* The ids of the params of the definition of a palette type: the fields
\* the panel renders for a node of that type.
DefParamIds(type) ==
    CASE type = "input_file"  -> {"file_types", "description"}
      [] type = "pdf_split"   -> {"mode", "pages", "every_n"}
      [] type = "ai_compare"  -> {"focus", "output_format"}
      [] type = "output_save" -> {"filename_pattern", "create_zip"}

\* {...params, [paramId]: value}
MergeParam(params, paramId, value) ==
    [q \in (DOMAIN params) \cup {paramId} |-> IF q = paramId THEN value ELSE params[q]]

\* The onChange of the label input of the panel; the panel is rendered
\* while a node is selected.
OnLabelChange(value) ==
    /\ selectedNode # Null
    /\ nodes' = [i \in DOMAIN nodes |->
                    IF nodes[i].id = selectedNode.id
                    THEN [nodes[i] EXCEPT !.data.label = value]
                    ELSE nodes[i]]
    /\ UNCHANGED <<edges, selectedNode, workflowName, workflowId, isExecuting,
                   executionResult, uploadedFiles, connectionError, pending, service>>

\* updateParam(paramId, value), called by the field of a param of the
\* definition of the selected node's type.
UpdateParam(paramId, value) ==
    /\ selectedNode # Null
    /\ paramId \in DefParamIds(selectedNode.data.nodeType)
    /\ nodes' = [i \in DOMAIN nodes |->
                    IF nodes[i].id = selectedNode.id
                    THEN [nodes[i] EXCEPT
                            !.data.params = MergeParam(nodes[i].data.params, paramId, value)]
                    ELSE nodes[i]]
    /\ UNCHANGED <<edges, selectedNode, workflowName, workflowId, isExecuting,
                   executionResult, uploadedFiles, connectionError, pending, service>>

----------------------------------------------------------------------------
\* alignNodesHorizontally and alignNodesVertically.

\* The sum of a list of numbers: reduce((sum, n) => sum + ..., 0).
RECURSIVE SumOf(_)
SumOf(values) ==
    IF values = <<>> THEN 0 ELSE values[1] + SumOf(SubSeq(values, 2, Len(values)))

\* sum / count: the quotient where it is whole, and the fraction itself
\* where it is not.
Quotient(sum, count) ==
    IF sum % count = 0 THEN sum \div count ELSE [num |-> sum, den |-> count]

\* avgY
AverageY == Quotient(SumOf([i \in DOMAIN nodes |-> nodes[i].position.y]), Len(nodes))

\* avgX
AverageX == Quotient(SumOf([i \in DOMAIN nodes |-> nodes[i].position.x]), Len(nodes))

\* alignNodesHorizontally setting every y to the y of the first node.
AlignNodesHorizontallyToFirst ==
    /\ IF Len(nodes) < 2
       THEN UNCHANGED nodes
       ELSE nodes' = [i \in DOMAIN nodes |->
                        [nodes[i] EXCEPT !.position.y = nodes[1].position.y]]
    /\ UNCHANGED <<edges, selectedNode, workflowName, workflowId, isExecuting,
                   executionResult, uploadedFiles, connectionError, pending, service>>

\* alignNodesHorizontally()
AlignNodesHorizontally ==
    /\ IF Len(nodes) < 2
       THEN UNCHANGED nodes
       ELSE nodes' = [i \in DOMAIN nodes |-> [nodes[i] EXCEPT !.position.y = AverageY]]
    /\ UNCHANGED <<edges, selectedNode, workflowName, workflowId, isExecuting,
                   executionResult, uploadedFiles, connectionError, pending, service>>

\* alignNodesVertically()
AlignNodesVertically ==
    /\ IF Len(nodes) < 2
       THEN UNCHANGED nodes
       ELSE nodes' = [i \in DOMAIN nodes |-> [nodes[i] EXCEPT !.position.x = AverageX]]
    /\ UNCHANGED <<edges, selectedNode, workflowName, workflowId, isExecuting,
                   executionResult, uploadedFiles, connectionError, pending, service>>

----------------------------------------------------------------------------
\* autoArrangeNodes.

HORIZONTAL_GAP == 250
VERTICAL_GAP == 120
START_X == 100
START_Y == 100

\* nodeType.startsWith('input_')
StartsWithInput(type) == type \in {"input_file", "input_folder"}

\* The ids of `s` in order, each once: a Set filled from an array, read back
\* in insertion order.
RECURSIVE Distinct(_)
Distinct(s) ==
    IF s = <<>> THEN <<>>
    ELSE LET rest == Distinct(SubSeq(s, 1, Len(s) - 1))
         IN  IF s[Len(s)] \in Range(rest) THEN rest ELSE Append(rest, s[Len(s)])

\* inputNodeIds of the graph (ns, es): the nodes of an input_ type or without
\* an incoming edge.
InputNodeIdsOf(ns, es) ==
    LET roots == Filter(ns, {n \in Range(ns) :
                    \/ StartsWithInput(n.data.nodeType)
                    \/ ~\E k \in DOMAIN es : es[k].target = n.id})
    IN  Distinct([i \in DOMAIN roots |-> roots[i].id])

InputNodeIds == InputNodeIdsOf(nodes, edges)

\* The inner forEach without its !nextLevel.includes(e.target).
RECURSIVE PushTargetsRepeating(_, _, _, _, _)
PushTargetsRepeating(es, nodeId, k, visited, nextLevel) ==
    IF k > Len(es) THEN nextLevel
    ELSE PushTargetsRepeating(es, nodeId, k + 1, visited,
            IF es[k].source = nodeId /\ es[k].target \notin visited
            THEN Append(nextLevel, es[k].target)
            ELSE nextLevel)

\* The inner forEach over the edges of es leaving nodeId, from the k-th on.
RECURSIVE PushTargets(_, _, _, _, _)
PushTargets(es, nodeId, k, visited, nextLevel) ==
    IF k > Len(es) THEN nextLevel
    ELSE PushTargets(es, nodeId, k + 1, visited,
            IF /\ es[k].source = nodeId
               /\ es[k].target \notin visited
               /\ es[k].target \notin Range(nextLevel)
            THEN Append(nextLevel, es[k].target)
            ELSE nextLevel)

\* The outer forEach over currentLevel, from its j-th node on.
RECURSIVE NextLevel(_, _, _, _, _)
NextLevel(es, currentLevel, j, visited, nextLevel) ==
    IF j > Len(currentLevel) THEN nextLevel
    ELSE NextLevel(es, currentLevel, j + 1, visited,
                   PushTargets(es, currentLevel[j], 1, visited, nextLevel))

\* The while loop with the current level added to visited after the next
\* level is built, not before.
RECURSIVE TraverseMarkingLate(_, _, _, _)
TraverseMarkingLate(es, currentLevel, visited, levels) ==
    IF currentLevel = <<>> THEN [levels |-> levels, visited |-> visited]
    ELSE TraverseMarkingLate(es, NextLevel(es, currentLevel, 1, visited, <<>>),
                             visited \cup Range(currentLevel),
                             Append(levels, currentLevel))

\* The while loop: the levels and the visited set it ends with.
RECURSIVE Traverse(_, _, _, _)
Traverse(es, currentLevel, visited, levels) ==
    IF currentLevel = <<>> THEN [levels |-> levels, visited |-> visited]
    ELSE LET seen == visited \cup Range(currentLevel)
         IN  Traverse(es, NextLevel(es, currentLevel, 1, seen, <<>>), seen,
                      Append(levels, currentLevel))

\* The forEach pushing each node not visited onto the last level.
RECURSIVE AppendUnvisitedTogether(_, _, _)
AppendUnvisitedTogether(ns, k, state) ==
    IF k > Len(ns) THEN state
    ELSE AppendUnvisitedTogether(ns, k + 1,
            IF ns[k].id \in state.visited THEN state
            ELSE [levels |-> IF state.levels = <<>> THEN <<<<ns[k].id>>>>
                             ELSE [state.levels EXCEPT ![Len(state.levels)] = Append(@, ns[k].id)],
                  visited |-> state.visited \cup {ns[k].id}])

\* nodes.forEach appending each node not visited as a level of its own.
RECURSIVE AppendUnvisited(_, _, _)
AppendUnvisited(ns, k, state) ==
    IF k > Len(ns) THEN state
    ELSE AppendUnvisited(ns, k + 1,
            IF ns[k].id \in state.visited THEN state
            ELSE [levels |-> Append(state.levels, <<ns[k].id>>),
                  visited |-> state.visited \cup {ns[k].id}])

\* levels, as autoArrangeNodes builds it for the graph (ns, es)
ArrangeLevelsOf(ns, es) ==
    AppendUnvisited(ns, 1, Traverse(es, InputNodeIdsOf(ns, es), {}, <<>>)).levels

ArrangeLevels == ArrangeLevelsOf(nodes, edges)

\* newPositions[nodeId] for the node at nodeIndex of the level at levelIndex
\* (both counted from 0).
NewPosition(level, levelIndex, nodeIndex) ==
    LET levelY == START_Y + ((Len(level) - 1) * VERTICAL_GAP) \div 2
    IN  [x |-> START_X + levelIndex * HORIZONTAL_GAP,
         y |-> levelY - ((Len(level) - 1) * VERTICAL_GAP) \div 2 + nodeIndex * VERTICAL_GAP]

\* The place of a level counted from where the node is, not from START_X.
ArrangedPositionFromOwn(ns, es, n) ==
    LET levels == ArrangeLevelsOf(ns, es)
        places == {<<l, k>> \in (DOMAIN levels) \X (1..(Len(ns) + Len(es))) :
                      k \in DOMAIN levels[l] /\ levels[l][k] = n.id}
    IN  IF places = {} THEN n.position
        ELSE LET place == CHOOSE q \in places : TRUE
             IN  [x |-> n.position.x + (place[1] - 1) * HORIZONTAL_GAP,
                  y |-> START_Y + (place[2] - 1) * VERTICAL_GAP]

\* newPositions[n.id] || n.position, for a node n of the graph (ns, es)
ArrangedPositionIn(ns, es, n) ==
    LET levels == ArrangeLevelsOf(ns, es)
        places == {<<l, k>> \in (DOMAIN levels) \X (1..(Len(ns) + Len(es))) :
                      k \in DOMAIN levels[l] /\ levels[l][k] = n.id}
    IN  IF places = {} THEN n.position
        ELSE LET place == CHOOSE q \in places : TRUE
             IN  NewPosition(levels[place[1]], place[1] - 1, place[2] - 1)

ArrangedPosition(n) == ArrangedPositionIn(nodes, edges, n)

AutoArrangeNodes ==
    /\ nodes # <<>>
    /\ nodes' = [i \in DOMAIN nodes |-> [nodes[i] EXCEPT !.position = ArrangedPosition(nodes[i])]]
    /\ UNCHANGED <<edges, selectedNode, workflowName, workflowId, isExecuting,
                   executionResult, uploadedFiles, connectionError, pending, service>>

----------------------------------------------------------------------------
\* The transport format of saveWorkflow and loadWorkflow.

\* The type every node has for React Flow (node.type).
FlowType == "workflowNode"

\* The node sent with its React Flow type for its type.
SerializeNodeByFlowType(n) ==
    [id |-> n.id,
     type |-> FlowType,
     position |-> n.position,
     config |-> [label |-> n.data.label, description |-> n.data.description,
                 params |-> n.data.params]]

\* nodes.map(...) of saveWorkflow; the type sent is nodeType || n.type.
SerializeNode(n) ==
    [id |-> n.id,
     type |-> IF n.data.nodeType # "" THEN n.data.nodeType ELSE FlowType,
     position |-> n.position,
     config |-> [label |-> n.data.label, description |-> n.data.description,
                 params |-> n.data.params]]

\* edges.map(...) of saveWorkflow; an edge made by onConnect has no handles,
\* so the handles sent are the defaults.
SerializeEdge(e) ==
    [id |-> e.id, source_node |-> e.source, target_node |-> e.target,
     source_handle |-> "output", target_handle |-> "input"]

\* The request body of saveWorkflow; id is NullId for `undefined`.
WorkflowBody ==
    [id |-> workflowId,
     name |-> workflowName,
     description |-> "",
     nodes |-> [i \in DOMAIN nodes |-> SerializeNode(nodes[i])],
     connections |-> [i \in DOMAIN edges |-> SerializeEdge(edges[i])]]

\* (workflow.nodes || []).map(...) of loadWorkflow
LoadNode(n) ==
    [id |-> n.id,
     position |-> n.position,
     data |-> [label |-> IF n.config.label # "" THEN n.config.label
                         ELSE IF n.type \in DefinedTypes THEN DefLabel(n.type)
                         ELSE n.type,
               category |-> IF n.type \in DefinedTypes THEN DefCategory(n.type) ELSE "pdf",
               nodeType |-> n.type,
               description |-> n.config.description,
               params |-> n.config.params]]

\* The conversion of a connection with source and target exchanged.
LoadEdgeReversed(c) == [id |-> c.id, source |-> c.target_node, target |-> c.source_node]

\* (workflow.connections || []).map(...) of loadWorkflow
LoadEdge(c) == [id |-> c.id, source |-> c.source_node, target |-> c.target_node]

----------------------------------------------------------------------------
\* The remote workflow service.

\* A workflow stored before this session by an earlier version of the
\* editor: its one node is of a type that has since lost its definition and
\* its rule.
LegacyId == <<"legacy">>
LegacyType == "ocr_extract"
LegacyWorkflow ==
    [id |-> LegacyId,
     name |-> "legacy workflow",
     description |-> "",
     nodes |-> <<[id |-> <<LegacyType, 0>>,
                  type |-> LegacyType,
                  position |-> [x |-> 0, y |-> 0],
                  config |-> [label |-> "OCR", description |-> "", params |-> <<>>]]>>,
     connections |-> <<>>]

\* The id the service gives the next workflow it creates.
NextWorkflowId == <<"wf", Cardinality(DOMAIN service)>>

\* The service side of a save: a body without id creates a record under a new
\* id, a body with an id replaces the record of that id.
StoredId(body) == IF body.id = NullId THEN NextWorkflowId ELSE body.id

Store(body) ==
    [w \in DOMAIN service \cup {StoredId(body)} |->
        IF w = StoredId(body) THEN [body EXCEPT !.id = StoredId(body)] ELSE service[w]]

\* The service side of a fetch: the record as it is stored.
Fetch(id) == service[id]

\* Removes the i-th request in flight.
Without(i) == [j \in 1..(Len(pending) - 1) |-> IF j < i THEN pending[j] ELSE pending[j + 1]]

\* The continuations a response can take: the payload reports success, the
\* payload reports an error, or fetch / response.json() throws.
Outcomes == {"success", "error", "throw"}

----------------------------------------------------------------------------
\* Loading.

\* loadWorkflow(id), up to the await: the picker lists the stored workflows.
LoadWorkflow(id) ==
    /\ Len(pending) < MaxPending
    /\ id \in DOMAIN service
    /\ pending' = Append(pending, [kind |-> "load", id |-> id])
    /\ UNCHANGED <<nodes, edges, selectedNode, workflowName, workflowId,
                   isExecuting, executionResult, uploadedFiles, connectionError,
                   service>>

\* A successful response applied without the check for an error payload:
\* what comes is taken for a workflow, one without nodes when it is none.
LoadWorkflowResponseUnchecked(i, outcome) ==
    /\ i \in DOMAIN pending
    /\ pending[i].kind = "load"
    /\ pending' = Without(i)
    /\ LET workflow == IF outcome = "success" THEN Fetch(pending[i].id)
                       ELSE [name |-> "", nodes |-> <<>>, connections |-> <<>>]
       IN  /\ nodes' = [k \in DOMAIN workflow.nodes |-> LoadNode(workflow.nodes[k])]
           /\ edges' = [k \in DOMAIN workflow.connections |->
                           LoadEdge(workflow.connections[k])]
           /\ workflowName' = (IF workflow.name # "" THEN workflow.name ELSE LoadedName)
           /\ workflowId' = pending[i].id
           /\ selectedNode' = Null
           /\ executionResult' = Null
    /\ UNCHANGED <<isExecuting, uploadedFiles, connectionError, service>>

\* The loaded nodes and edges added to those on the canvas.
LoadWorkflowResponseMerging(i, outcome) ==
    /\ i \in DOMAIN pending
    /\ pending[i].kind = "load"
    /\ pending' = Without(i)
    /\ IF outcome = "success"
       THEN LET workflow == Fetch(pending[i].id)
            IN  /\ nodes' = nodes \o [k \in DOMAIN workflow.nodes |->
                                         LoadNode(workflow.nodes[k])]
                /\ edges' = edges \o [k \in DOMAIN workflow.connections |->
                                         LoadEdge(workflow.connections[k])]
                /\ workflowName' = (IF workflow.name # "" THEN workflow.name
                                    ELSE LoadedName)
                /\ workflowId' = pending[i].id
                /\ selectedNode' = Null
                /\ executionResult' = Null
       ELSE UNCHANGED <<nodes, edges, workflowName, workflowId, selectedNode,
                        executionResult>>
    /\ UNCHANGED <<isExecuting, uploadedFiles, connectionError, service>>

\* loadWorkflow(id), from the response on.
LoadWorkflowResponse(i, outcome) ==
    /\ i \in DOMAIN pending
    /\ pending[i].kind = "load"
    /\ pending' = Without(i)
    /\ IF outcome = "success"
       THEN LET workflow == Fetch(pending[i].id)
            IN  /\ nodes' = [k \in DOMAIN workflow.nodes |-> LoadNode(workflow.nodes[k])]
                /\ edges' = [k \in DOMAIN workflow.connections |->
                                LoadEdge(workflow.connections[k])]
                /\ workflowName' = (IF workflow.name # "" THEN workflow.name
                                    ELSE LoadedName)
                /\ workflowId' = pending[i].id
                /\ selectedNode' = Null
                /\ executionResult' = Null
       ELSE UNCHANGED <<nodes, edges, workflowName, workflowId, selectedNode,
                        executionResult>>
    /\ UNCHANGED <<isExecuting, uploadedFiles, connectionError, service>>

\* openLoadModal() / loadWorkflowList(), up to the await.  The list, the
\* flag isLoadingWorkflows and the modal are no part of the state here.
LoadWorkflowList ==
    /\ Len(pending) < MaxPending
    /\ pending' = Append(pending, [kind |-> "list"])
    /\ UNCHANGED <<nodes, edges, selectedNode, workflowName, workflowId,
                   isExecuting, executionResult, uploadedFiles, connectionError,
                   service>>

\* loadWorkflowList(), from the response on.
LoadWorkflowListResponse(i, outcome) ==
    /\ i \in DOMAIN pending
    /\ pending[i].kind = "list"
    /\ pending' = Without(i)
    /\ UNCHANGED <<nodes, edges, selectedNode, workflowName, workflowId,
                   isExecuting, executionResult, uploadedFiles, connectionError,
                   service>>

----------------------------------------------------------------------------
\* Saving.

\* saveWorkflow(), up to the await.  The service holds the workflow stored
\* before the session and at most MaxSaved created in it.
SaveWorkflow ==
    /\ Len(pending) < MaxPending
    /\ workflowId # NullId \/ Cardinality(DOMAIN service) < 1 + MaxSaved
    /\ pending' = Append(pending, [kind |-> "save", body |-> WorkflowBody])
    /\ UNCHANGED <<nodes, edges, selectedNode, workflowName, workflowId,
                   isExecuting, executionResult, uploadedFiles, connectionError,
                   service>>

\* The service handles the request and saveWorkflow() goes on from the
\* response: setWorkflowId(result.workflow_id) on success.
SaveWorkflowResponse(i, outcome) ==
    /\ i \in DOMAIN pending
    /\ pending[i].kind = "save"
    /\ pending' = Without(i)
    /\ IF outcome = "success"
       THEN /\ service' = Store(pending[i].body)
            /\ workflowId' = StoredId(pending[i].body)
       ELSE UNCHANGED <<service, workflowId>>
    /\ UNCHANGED <<nodes, edges, selectedNode, workflowName, isExecuting,
                   executionResult, uploadedFiles, connectionError>>

----------------------------------------------------------------------------
\* Executing.

\* handleFileUpload(e): the user picks k files.
HandleFileUpload(k) ==
    /\ uploadedFiles' = k
    /\ UNCHANGED <<nodes, edges, selectedNode, workflowName, workflowId,
                   isExecuting, executionResult, connectionError, pending, service>>

\* executeWorkflow() behind a button that is not disabled while isExecuting.
ExecuteWorkflowReentrant ==
    IF workflowId = NullId \/ uploadedFiles = 0
    THEN UNCHANGED vars
    ELSE /\ Len(pending) < MaxPending
         /\ isExecuting' = TRUE
         /\ executionResult' = Null
         /\ pending' = Append(pending, [kind |-> "execute", id |-> workflowId,
                                        files |-> uploadedFiles])
         /\ UNCHANGED <<nodes, edges, selectedNode, workflowName, workflowId,
                        uploadedFiles, connectionError, service>>

\* executeWorkflow() without the check for uploaded files.
ExecuteWorkflowWithoutFiles ==
    /\ ~isExecuting
    /\ IF workflowId = NullId
       THEN UNCHANGED vars
       ELSE /\ Len(pending) < MaxPending
            /\ isExecuting' = TRUE
            /\ executionResult' = Null
            /\ pending' = Append(pending, [kind |-> "execute", id |-> workflowId,
                                           files |-> uploadedFiles])
            /\ UNCHANGED <<nodes, edges, selectedNode, workflowName, workflowId,
                           uploadedFiles, connectionError, service>>

\* executeWorkflow(), up to the await.  The button that calls it is disabled
\* while isExecuting.
ExecuteWorkflow ==
    /\ ~isExecuting
    /\ IF workflowId = NullId \/ uploadedFiles = 0
       THEN UNCHANGED vars
       ELSE /\ Len(pending) < MaxPending
            /\ isExecuting' = TRUE
            /\ executionResult' = Null
            /\ pending' = Append(pending, [kind |-> "execute", id |-> workflowId,
                                           files |-> uploadedFiles])
            /\ UNCHANGED <<nodes, edges, selectedNode, workflowName, workflowId,
                           uploadedFiles, connectionError, service>>

\* executeWorkflow() with setIsExecuting(false) at the end of the try block
\* in place of the finally block.
ExecuteWorkflowResponseWithoutFinally(i, outcome) ==
    /\ i \in DOMAIN pending
    /\ pending[i].kind = "execute"
    /\ pending' = Without(i)
    /\ executionResult' = (IF outcome = "throw" THEN executionResult
                           ELSE [kind |-> "result", success |-> outcome = "success"])
    /\ isExecuting' = (IF outcome = "throw" THEN isExecuting ELSE FALSE)
    /\ UNCHANGED <<nodes, edges, selectedNode, workflowName, workflowId,
                   uploadedFiles, connectionError, service>>

\* executeWorkflow(), from the response on.
ExecuteWorkflowResponse(i, outcome) ==
    /\ i \in DOMAIN pending
    /\ pending[i].kind = "execute"
    /\ pending' = Without(i)
    /\ executionResult' = (IF outcome = "throw" THEN executionResult
                           ELSE [kind |-> "result", success |-> outcome = "success"])
    /\ isExecuting' = FALSE
    /\ UNCHANGED <<nodes, edges, selectedNode, workflowName, workflowId,
                   uploadedFiles, connectionError, service>>

\* The close button of the result panel.
CloseExecutionResult ==
    /\ executionResult # Null
    /\ executionResult' = Null
    /\ UNCHANGED <<nodes, edges, selectedNode, workflowName, workflowId,
                   isExecuting, uploadedFiles, connectionError, pending, service>>

----------------------------------------------------------------------------
\* The state after the component has mounted.

\* The names of the files handed over by the home page, and the
\* descriptions `input file: ${file.name}` made of them.
FileNames == <<"a.pdf", "b.pdf", "c.pdf">>
FileDescriptions == <<"input file: a.pdf", "input file: b.pdf", "input file: c.pdf">>

\* The nodes the mount effect makes of k files handed over by the home page.
ImportedNodes(k, t) ==
    [index \in 1..k |->
        [id |-> <<"input_file", t, index - 1>>,
         position |-> [x |-> 100, y |-> 100 + (index - 1) * 120],
         data |-> [label |-> FileNames[index], category |-> "input",
                   nodeType |-> "input_file",
                   description |-> FileDescriptions[index],
                   params |-> [filename |-> FileNames[index]]]]]

Init ==
    /\ \E k \in 0..MaxFiles :
          /\ uploadedFiles = k
          /\ nodes = ImportedNodes(k, 0)
    /\ edges = <<>>
    /\ selectedNode = Null
    /\ workflowName = DefaultName
    /\ workflowId = NullId
    /\ isExecuting = FALSE
    /\ executionResult = Null
    /\ connectionError = Null
    /\ pending = <<>>
    /\ service = [w \in {LegacyId} |-> LegacyWorkflow]

----------------------------------------------------------------------------
\* The actions with their inputs.

\* A palette node of one of `types` is dropped; the clock has moved on since
\* the earlier drops.
Drop(types) ==
    \E type \in types, position \in DropPoints :
        \E t \in FreshTimes(type) : OnDrop(type, t, position)

\* The user drags from one handle to another.
Connect == \E source \in ConnectParams, target \in ConnectParams : OnConnect(source, target)

Click == \E i \in DOMAIN nodes : OnNodeClick(i)

\* No request is in flight: the user has waited for the last response.
Quiet == pending = <<>>

Clear == \E confirmed \in BOOLEAN : ClearCanvas(confirmed)

----------------------------------------------------------------------------
\* Building and connecting: drop, connect, the message timeout, clear.

NextConnect ==
    \/ Drop(PaletteTypes)
    \/ Connect
    \/ ClearConnectionError
    \/ Clear

SpecConnect == Init /\ [][NextConnect]_vars

----------------------------------------------------------------------------
\* Editing: building and connecting, selecting and deleting, with a palette
\* of a type without inputs and a type with inputs.

EditTypes == {"input_file", "ai_compare"}

NextEdit ==
    \/ Drop(EditTypes)
    \/ Connect
    \/ ClearConnectionError
    \/ Click
    \/ DeleteSelectedNode
    \/ Clear

SpecEdit == Init /\ [][NextEdit]_vars

----------------------------------------------------------------------------
\* Building and connecting on top of a loaded workflow; the service is only
\* read.

Load == Quiet /\ \E id \in DOMAIN service : LoadWorkflow(id)

LoadResponse == \E i \in DOMAIN pending, outcome \in Outcomes : LoadWorkflowResponse(i, outcome)

NextLoad ==
    \/ Drop(PaletteTypes)
    \/ Connect
    \/ ClearConnectionError
    \/ Clear
    \/ Load
    \/ LoadResponse

SpecLoad == Init /\ [][NextLoad]_vars

----------------------------------------------------------------------------
\* Persisting: a small graph of a type without inputs and a type without
\* outputs is built, edited, arranged, saved, cleared and loaded again.

PersistTypes == {"input_file", "output_save"}

SaveResponse == \E i \in DOMAIN pending, outcome \in Outcomes : SaveWorkflowResponse(i, outcome)

DropFew(types) == Len(nodes) < MaxPersistNodes /\ Drop(types)

\* The user picks one of the workflows saved in this session, saves and
\* executes, each time after the last response has come.
LoadSaved == Quiet /\ \E id \in DOMAIN service \ {LegacyId} : LoadWorkflow(id)

SaveQuiet == Quiet /\ SaveWorkflow

ExecuteQuiet == Quiet /\ ExecuteWorkflow

NextPersist ==
    \/ DropFew(PersistTypes)
    \/ Connect
    \/ ClearConnectionError
    \/ Click
    \/ DeleteSelectedNode
    \/ Clear
    \/ SaveQuiet
    \/ SaveResponse
    \/ LoadSaved
    \/ LoadResponse

SpecPersist == Init /\ [][NextPersist]_vars

----------------------------------------------------------------------------
\* Arranging: building and connecting with the automatic layout.

NextArrange ==
    \/ Drop(PaletteTypes)
    \/ Connect
    \/ ClearConnectionError
    \/ AutoArrangeNodes
    \/ Clear

SpecArrange == Init /\ [][NextArrange]_vars

----------------------------------------------------------------------------
\* Executing: nodes are dropped, files are uploaded, the workflow is saved,
\* loaded and executed, the result is closed, the canvas is cleared.

Upload == \E k \in 0..MaxFiles : HandleFileUpload(k)

ExecuteResponse ==
    \E i \in DOMAIN pending, outcome \in Outcomes : ExecuteWorkflowResponse(i, outcome)

NextExecute ==
    \/ DropFew(PersistTypes)
    \/ Upload
    \/ SaveQuiet
    \/ SaveResponse
    \/ ExecuteQuiet
    \/ ExecuteResponse
    \/ CloseExecutionResult
    \/ Clear
    \/ LoadSaved
    \/ LoadResponse

SpecExecute == Init /\ [][NextExecute]_vars

----------------------------------------------------------------------------
\* Requests side by side: the user saves, uploads, executes and clears
\* without waiting for the responses.

NextRun ==
    \/ Upload
    \/ SaveWorkflow
    \/ SaveResponse
    \/ ExecuteWorkflow
    \/ ExecuteResponse
    \/ CloseExecutionResult
    \/ Clear

SpecRun == Init /\ [][NextRun]_vars

\* The same with every execute request answered in the end: the fetch
\* resolves or rejects, and the handler runs to its finally block.
SpecRunFair == SpecRun /\ WF_vars(ExecuteResponse)

----------------------------------------------------------------------------
\* Remote calls one after the other on a small graph: list, load, save and
\* execute, each with its three outcomes.

ListQuiet == Quiet /\ LoadWorkflowList

ListResponse ==
    \E i \in DOMAIN pending, outcome \in Outcomes : LoadWorkflowListResponse(i, outcome)

NextRemote ==
    \/ DropFew(PersistTypes)
    \/ Connect
    \/ ClearConnectionError
    \/ Click
    \/ Upload
    \/ ListQuiet
    \/ ListResponse
    \/ LoadSaved
    \/ LoadResponse
    \/ SaveQuiet
    \/ SaveResponse
    \/ ExecuteQuiet
    \/ ExecuteResponse
    \/ Clear

SpecRemote == Init /\ [][NextRemote]_vars

----------------------------------------------------------------------------
\* Loading over a graph in use: the stored workflow is loaded, built upon,
\* executed and loaded again; nothing is saved.

NextReload ==
    \/ DropFew(PersistTypes)
    \/ Connect
    \/ ClearConnectionError
    \/ Click
    \/ Upload
    \/ ExecuteQuiet
    \/ ExecuteResponse
    \/ Load
    \/ LoadResponse
    \/ Clear

SpecReload == Init /\ [][NextReload]_vars

----------------------------------------------------------------------------
\* Editing with a clock that may stand still between two drops.

DropAtClock(types) ==
    \E type \in types, position \in DropPoints :
        \E t \in FreshTimes(type) \cup SameTimes(type) : OnDrop(type, t, position)

NextClock ==
    \/ DropAtClock(EditTypes)
    \/ Connect
    \/ ClearConnectionError
    \/ Click
    \/ DeleteSelectedNode
    \/ Clear

SpecClock == Init /\ [][NextClock]_vars

----------------------------------------------------------------------------
\* Aligning: nodes are dropped at points of a grid, connected and aligned.
\* The coordinates of the grid and of the imported nodes are equal modulo 12,
\* so the mean of two, three or four of them is whole.

GridPoints == {[x |-> 4, y |-> 4], [x |-> 16, y |-> 28]}

DropOnGrid(types) ==
    \E type \in types, position \in GridPoints :
        \E t \in FreshTimes(type) : OnDrop(type, t, position)

NextAlign ==
    \/ DropOnGrid(EditTypes)
    \/ Connect
    \/ ClearConnectionError
    \/ AlignNodesHorizontally
    \/ AlignNodesVertically

SpecAlign == Init /\ [][NextAlign]_vars

----------------------------------------------------------------------------
\* Late responses: a save or an execution is started while nothing is
\* pending; while it is pending the user clears the canvas or loads a
\* workflow, and the responses come in any order.

LoadAny == \E id \in DOMAIN service : LoadWorkflow(id)

NextLate ==
    \/ DropFew(PersistTypes)
    \/ Upload
    \/ SaveQuiet
    \/ SaveResponse
    \/ ExecuteQuiet
    \/ ExecuteResponse
    \/ LoadAny
    \/ LoadResponse
    \/ Clear

SpecLate == Init /\ [][NextLate]_vars

----------------------------------------------------------------------------
\* The life of a graph: nodes are dropped, connected, selected and deleted,
\* the graph is saved and loaded again, the canvas is cleared.

GraphTypes == {"ai_compare"}

NextGraph ==
    \/ DropFew(GraphTypes)
    \/ Connect
    \/ Click
    \/ DeleteSelectedNode
    \/ SaveQuiet
    \/ SaveResponse
    \/ LoadSaved
    \/ LoadResponse
    \/ Clear

SpecGraph == Init /\ [][NextGraph]_vars

----------------------------------------------------------------------------
\* The panel: nodes are dropped and selected, the label and the params of
\* the selected node are edited, the node is deleted, the canvas is cleared.

TypedLabels == {"contract", ""}

ChosenParams == {<<"file_types", "all">>, <<"focus", "clauses">>, <<"focus", "all">>}

EditLabel == \E value \in TypedLabels : OnLabelChange(value)

EditParam == \E choice \in ChosenParams : UpdateParam(choice[1], choice[2])

NextPanel ==
    \/ DropFew(EditTypes)
    \/ Click
    \/ EditLabel
    \/ EditParam
    \/ DeleteSelectedNode
    \/ Clear

SpecPanel == Init /\ [][NextPanel]_vars

----------------------------------------------------------------------------
\* What the claims speak of.

\* The type of the node a connection parameter names.
TypeOf(id) == FindNode(id).data.nodeType

\* The pairs of connection parameters that name something: a node or an id
\* that is on no node.
Attempts == (NodeIds \cup {GhostId}) \X (NodeIds \cup {GhostId})

\* The attempt is rejected: no edge is added and a message is shown.
Rejected(source, target) ==
    /\ ~validateConnection(source, target).valid
    /\ edges' = edges
    /\ connectionError' # Null

\* The edges with the given endpoints.
EdgesBetween(source, target) ==
    {i \in DOMAIN edges : edges[i].source = source /\ edges[i].target = target}

\* The rule of `type` limits the inputs to n > 0.
LimitsInputs(type) == type \in RuleTypes /\ connectionRules[type].maxInputs > 0

\* What the rule table says of a type; a type without a rule is let through.
MayOutput(type) == type \in RuleTypes => connectionRules[type].canHaveOutput
MayReceive(type) == type \in RuleTypes => connectionRules[type].canHaveInput
HasRoom(type, target) ==
    type \in RuleTypes =>
        \/ connectionRules[type].maxInputs = -1
        \/ InputCount(target) < connectionRules[type].maxInputs

----------------------------------------------------------------------------
\* The target's type limits the inputs and the target has reached the limit.
IsFull(target) ==
    /\ target \in NodeIds
    /\ LimitsInputs(TypeOf(target))
    /\ InputCount(target) >= connectionRules[TypeOf(target)].maxInputs

\* C1: once a node whose type has maxInputs = n > 0 has n incoming edges,
\* every connection attempt that targets it is rejected, whatever the
\* source is (another node, a source of one of its edges, itself, no node),
\* and adds no edge; on an ai_compare node the attempt of a source that
\* exists and may output is rejected with the message that names the limit 2.
MaxInputsEnforced ==
    /\ [](\A a \in Attempts :
            IsFull(a[2]) =>
               /\ ~validateConnection(a[1], a[2]).valid
               /\ (/\ TypeOf(a[2]) = "ai_compare"
                   /\ a[1] \in NodeIds
                   /\ MayOutput(TypeOf(a[1])))
                  => /\ validateConnection(a[1], a[2]).error.kind =
                            "ai_compare inputs connected"
                     /\ validateConnection(a[1], a[2]).error.most = 2)
    /\ [][\A a \in Attempts :
            (IsFull(a[2]) /\ OnConnect(a[1], a[2]))
            => /\ Rejected(a[1], a[2])
               /\ connectionError' = validateConnection(a[1], a[2]).error]_vars

\* An ai_compare node has two incoming edges from two sources and a third
\* attempt on it has just been rejected with the message of the limit.
MaxInputsEnforcedWitness ==
    /\ connectionError = ErrAiCompare(2)
    /\ \E i \in DOMAIN nodes :
          /\ nodes[i].data.nodeType = "ai_compare"
          /\ InputCount(nodes[i].id) = 2
          /\ Cardinality({edges[j].source : j \in {k \in DOMAIN edges :
                              edges[k].target = nodes[i].id}}) = 2

----------------------------------------------------------------------------
\* The source is a node of a type whose rule forbids output.
IsSink(source) ==
    /\ source \in NodeIds
    /\ TypeOf(source) \in RuleTypes
    /\ ~connectionRules[TypeOf(source)].canHaveOutput

\* C2: a connection attempt whose source is a node of a type with
\* canHaveOutput = false (output_save) is rejected for every target, and the
\* edge list is left as it was.
NoOutputSourceRejected ==
    /\ [](\A a \in Attempts : IsSink(a[1]) => ~validateConnection(a[1], a[2]).valid)
    /\ [][\A a \in Attempts :
            (IsSink(a[1]) /\ OnConnect(a[1], a[2])) => Rejected(a[1], a[2])]_vars

\* An attempt from an output_save node to a node that could take one more
\* input has just been rejected.
NoOutputSourceRejectedWitness ==
    /\ connectionError = ErrNoOutput(DefLabel("output_save"))
    /\ \E i \in DOMAIN nodes :
          /\ nodes[i].data.nodeType = "pdf_split"
          /\ InputCount(nodes[i].id) = 0

----------------------------------------------------------------------------
\* No edge leads from a node to itself.
NoSelfEdge == \A i \in DOMAIN edges : edges[i].source # edges[i].target

\* C4: a connection attempt from a node to itself is rejected, whatever the
\* node's type and incoming edges are, and the edge list never holds an edge
\* from a node to itself.
SelfConnectionRejected ==
    /\ [](NoSelfEdge /\ \A a \in NodeIds : ~validateConnection(a, a).valid)
    /\ [][\A a \in NodeIds : OnConnect(a, a) => Rejected(a, a)]_vars

\* A node that may output and may take one more input has just been
\* refused a connection to itself.
SelfConnectionRejectedWitness ==
    /\ connectionError = ErrSelf
    /\ \E i \in DOMAIN nodes :
          /\ nodes[i].data.nodeType \in {"pdf_split", "ai_compare"}
          /\ ~InputsFull(nodes[i].data.nodeType, nodes[i].id)

----------------------------------------------------------------------------
\* C5, as the spec states it: an attempt (a, b) made while the edge (a, b)
\* exists is rejected as a duplicate, and the edge list holds exactly one
\* edge (a, b).
RepeatRejectedAsDuplicate ==
    /\ [](\A i \in DOMAIN edges :
            LET a == edges[i].source
                b == edges[i].target
            IN  /\ validateConnection(a, b) = Invalid(ErrDuplicate)
                /\ Cardinality(EdgesBetween(a, b)) = 1)
    /\ [][\A a \in Attempts :
            (EdgesBetween(a[1], a[2]) # {} /\ OnConnect(a[1], a[2]))
            => /\ Rejected(a[1], a[2])
               /\ connectionError' = ErrDuplicate]_vars

\* The reasons a repeated attempt at b may be rejected with.
RepeatReason(b) ==
    IF IsFull(b) THEN {"max inputs reached", "ai_compare inputs connected"}
    ELSE {"connection exists"}

\* C5, amended: an attempt (a, b) made while the edge (a, b) exists is
\* rejected and the edge list holds exactly one edge (a, b); the reason shown
\* is the duplicate, unless b's type limits the inputs and b has reached the
\* limit, in which case the reason shown is that limit.
RepeatRejected ==
    /\ [](\A i \in DOMAIN edges :
            LET a == edges[i].source
                b == edges[i].target
            IN  /\ ~validateConnection(a, b).valid
                /\ validateConnection(a, b).error.kind \in RepeatReason(b)
                /\ Cardinality(EdgesBetween(a, b)) = 1)
    /\ [][\A a \in Attempts :
            (EdgesBetween(a[1], a[2]) # {} /\ OnConnect(a[1], a[2]))
            => /\ Rejected(a[1], a[2])
               /\ connectionError'.kind \in RepeatReason(a[2])
               /\ Cardinality(EdgesBetween(a[1], a[2])) = 1]_vars

\* An edge into a node that can take more inputs exists and its repetition
\* has just been rejected as a duplicate.
RepeatRejectedWitness ==
    /\ connectionError = ErrDuplicate
    /\ \E i \in DOMAIN edges : ~InputsFull(TypeOf(edges[i].target), edges[i].target)

----------------------------------------------------------------------------
\* C7: a rejected connection attempt changes neither the nodes nor the
\* edges: all it does is to store the reason as connectionError.
RejectionOnlySetsError ==
    [][\A a \in Attempts :
          (~validateConnection(a[1], a[2]).valid /\ OnConnect(a[1], a[2]))
          => /\ connectionError' = validateConnection(a[1], a[2]).error
             /\ connectionError' # Null
             /\ UNCHANGED <<nodes, edges, selectedNode, workflowName, workflowId,
                            isExecuting, executionResult, uploadedFiles, pending,
                            service>>]_vars

\* A rejection is on display over a canvas that has an edge, with room for
\* one more.
RejectionOnlySetsErrorWitness ==
    /\ connectionError # Null
    /\ Len(edges) = 1
    /\ Len(nodes) >= 2

----------------------------------------------------------------------------
\* Every condition of the rule table and of the edge list is met.
Acceptable(source, target) ==
    /\ source \in NodeIds
    /\ target \in NodeIds
    /\ source # target
    /\ MayOutput(TypeOf(source))
    /\ MayReceive(TypeOf(target))
    /\ HasRoom(TypeOf(target), target)
    /\ EdgesBetween(source, target) = {}

\* C8: an attempt between two distinct nodes is accepted and appends exactly
\* the edge source -> target, the nodes left as they were, whenever the
\* source's type may output, the target's type may receive, the target has
\* fewer incoming edges than its maxInputs (or maxInputs is -1) and no edge
\* with these endpoints exists.
LegalConnectionAccepted ==
    /\ [](\A a \in Attempts : Acceptable(a[1], a[2]) => validateConnection(a[1], a[2]).valid)
    /\ [][\A a \in Attempts :
            (Acceptable(a[1], a[2]) /\ OnConnect(a[1], a[2]))
            => /\ Len(edges') = Len(edges) + 1
               /\ SubSeq(edges', 1, Len(edges)) = edges
               /\ edges'[Len(edges')].source = a[1]
               /\ edges'[Len(edges')].target = a[2]
               /\ nodes' = nodes]_vars

\* An input_file node is connected to an output_save node.
LegalConnectionAcceptedWitness ==
    \E i \in DOMAIN edges :
        /\ TypeOf(edges[i].source) = "input_file"
        /\ TypeOf(edges[i].target) = "output_save"

----------------------------------------------------------------------------
\* The edge e has the node id at one of its ends.
Incident(e, id) == e.source = id \/ e.target = id

\* s is t with the elements outside `kept` left out.
IsRestriction(s, t, kept) ==
    \E f \in [DOMAIN s -> DOMAIN t] :
        /\ \A i \in DOMAIN s : s[i] = t[f[i]]
        /\ \A i, j \in DOMAIN s : i < j => f[i] < f[j]
        /\ {f[i] : i \in DOMAIN s} = {k \in DOMAIN t : t[k] \in kept}

\* C6: deleting the selected node removes the node and every edge whose
\* source or target it is, so that no edge is left with the deleted id at
\* either end; the other nodes and the edges between them are kept, in
\* their order, and the selection is cleared.
DeleteCascades ==
    [][DeleteSelectedNode =>
          LET id == selectedNode.id
          IN  /\ \A i \in DOMAIN nodes' : nodes'[i].id # id
              /\ \A i \in DOMAIN edges' : ~Incident(edges'[i], id)
              /\ IsRestriction(nodes', nodes, {n \in Range(nodes) : n.id # id})
              /\ IsRestriction(edges', edges, {e \in Range(edges) : ~Incident(e, id)})
              /\ selectedNode' = Null]_vars

\* A node has just been deleted that had an edge to a node which keeps
\* its edge from a third node.
DeleteCascadesWitness ==
    /\ selectedNode = Null
    /\ Len(nodes) = 2
    /\ Len(edges) = 1
    /\ \E i \in DOMAIN nodes :
          /\ nodes[i].data.nodeType = "ai_compare"
          /\ InputCount(nodes[i].id) = 1
    /\ connectionError = ErrAiCompare(2)

----------------------------------------------------------------------------
\* The node named by id is of a type without an entry in connectionRules.
Unruled(id) == id \in NodeIds /\ TypeOf(id) \notin RuleTypes

\* The reasons that come from the rule of the source, and of the target.
SourceReasons == {"cannot be an output source"}
TargetReasons == {"cannot receive input", "max inputs reached", "ai_compare inputs connected"}

\* C9: a node whose type has no entry in connectionRules is never rejected
\* by the check of the source's output, of the target's input or of the
\* target's number of inputs, be it the source or the target of the attempt.
MissingRulePermits ==
    /\ [](\A a \in Attempts :
            /\ Unruled(a[1]) => validateConnection(a[1], a[2]).error.kind \notin SourceReasons
            /\ Unruled(a[2]) => validateConnection(a[1], a[2]).error.kind \notin TargetReasons
            /\ (Unruled(a[1]) /\ Unruled(a[2]) /\ a[1] # a[2] /\ EdgesBetween(a[1], a[2]) = {})
               => validateConnection(a[1], a[2]).valid)
    /\ [][\A a \in Attempts :
            ((Unruled(a[1]) \/ Unruled(a[2])) /\ OnConnect(a[1], a[2])
                /\ connectionError' # connectionError)
            => /\ Unruled(a[1]) => connectionError'.kind \notin SourceReasons
               /\ Unruled(a[2]) => connectionError'.kind \notin TargetReasons]_vars

\* A node of the type without a rule, loaded from the service, is the source
\* of one edge and the target of another.
MissingRulePermitsWitness ==
    /\ \E i \in DOMAIN edges : Unruled(edges[i].source)
    /\ \E i \in DOMAIN edges : Unruled(edges[i].target)

----------------------------------------------------------------------------
----------------------------------------------------------------------------
\* There is no saved workflow id or no uploaded file.
PreconditionFails == workflowId = NullId \/ uploadedFiles = 0

\* C10: executeWorkflow() called without a saved workflow id or without an
\* uploaded file sends nothing: isExecuting stays false, executionResult is
\* unchanged and no request joins those in flight; so no execute request in
\* flight was ever sent without an id or without files.
ExecuteNeedsIdAndFiles ==
    /\ [](\A i \in DOMAIN pending :
            pending[i].kind = "execute" => pending[i].id # NullId /\ pending[i].files > 0)
    /\ [][(PreconditionFails /\ ExecuteWorkflow)
            => /\ isExecuting' = FALSE
               /\ executionResult' = executionResult
               /\ pending' = pending]_vars

\* The execute button is enabled, the result of an earlier execution is on
\* display and a precondition fails: a click on the button is rejected and
\* leaves this very state.
ExecuteNeedsIdAndFilesWitness ==
    /\ ~isExecuting
    /\ executionResult # Null
    /\ pending = <<>>
    /\ PreconditionFails
    /\ workflowId # NullId \/ uploadedFiles > 0

----------------------------------------------------------------------------
\* The requests of a kind that are in flight.
InFlight(kind) == {i \in DOMAIN pending : pending[i].kind = kind}

\* The requests of a kind in flight after the step.
InFlightNext(kind) == {i \in DOMAIN pending' : pending'[i].kind = kind}

\* C11: at most one execute request is in flight at any time; isExecuting is
\* true exactly while one is, it becomes true only with the request sent
\* and false only with its response, and while it is true no further
\* execute request is sent.
OneExecuteInFlight ==
    /\ [](/\ Cardinality(InFlight("execute")) <= 1
          /\ isExecuting <=> InFlight("execute") # {})
    /\ [][/\ isExecuting => Cardinality(InFlightNext("execute")) <= Cardinality(InFlight("execute"))
          /\ (~isExecuting /\ isExecuting') => Cardinality(InFlightNext("execute")) = 1
          /\ (isExecuting /\ ~isExecuting') => InFlightNext("execute") = {}]_vars

\* An execution is in flight together with a save sent after it: the user
\* went on working while isExecuting was true and could not execute again.
OneExecuteInFlightWitness ==
    /\ isExecuting
    /\ Len(pending) = MaxPending
    /\ pending[1].kind = "execute"
    /\ pending[2].kind = "save"

----------------------------------------------------------------------------
\* C12: at most one save request is in flight at any time, so no two saves
\* of a graph that was never saved are in flight without an id, and the
\* service does not create two records of it.
OneSaveInFlight ==
    /\ Cardinality(InFlight("save")) <= 1
    /\ \A i, j \in InFlight("save") :
          (pending[i].body.id = NullId /\ pending[j].body.id = NullId) => i = j

\* The service has created two records out of two saves of the one graph
\* that was never saved.
TwoRecordsOfOneGraph ==
    \E v, w \in DOMAIN service \ {LegacyId} :
        /\ v # w
        /\ service[v].nodes = service[w].nodes
        /\ service[v].connections = service[w].connections
        /\ service[v].name = service[w].name

----------------------------------------------------------------------------
\* The outcomes of a remote call that failed.
FailedOutcomes == {"error", "throw"}

\* C13: the response of a failed save, list, fetch or execute changes
\* neither the nodes nor the edges; that of a failed fetch leaves workflowId,
\* workflowName and the selection as well, that of a failed save workflowId.
FailedCallKeepsGraph ==
    [][\A i \in DOMAIN pending, outcome \in FailedOutcomes :
          /\ (\/ SaveWorkflowResponse(i, outcome)
              \/ LoadWorkflowListResponse(i, outcome)
              \/ LoadWorkflowResponse(i, outcome)
              \/ ExecuteWorkflowResponse(i, outcome))
             => nodes' = nodes /\ edges' = edges
          /\ LoadWorkflowResponse(i, outcome)
             => UNCHANGED <<workflowId, workflowName, selectedNode>>
          /\ SaveWorkflowResponse(i, outcome) => workflowId' = workflowId]_vars

\* A fetch is in flight for a stored workflow other than the graph on the
\* canvas, which has an edge and a selected node and belongs to no stored
\* workflow: the failure of the fetch has all of this to keep.
FailedCallKeepsGraphWitness ==
    /\ Len(pending) = 1
    /\ pending[1].kind = "load"
    /\ edges # <<>>
    /\ selectedNode # Null
    /\ workflowId = NullId
    /\ Fetch(pending[1].id).connections = <<>>

----------------------------------------------------------------------------
\* C14: a save sends the id the graph has, none before its first successful
\* save; a successful save makes workflowId the id the service returns; and
\* once the graph has an id, a successful save of it keeps that id and
\* replaces the record of that id instead of creating a record.
SavesUpdateOneRecord ==
    /\ [][SaveWorkflow => pending'[Len(pending')].body.id = workflowId]_vars
    /\ [][\A i \in DOMAIN pending :
            SaveWorkflowResponse(i, "success")
            => /\ workflowId' = StoredId(pending[i].body)
               /\ workflowId # NullId
                  => /\ workflowId' = workflowId
                     /\ DOMAIN service' = DOMAIN service]_vars

\* The graph has the id of its first save, and a second save of it that was
\* sent without an id is still in flight.
SavesUpdateOneRecordWitness ==
    /\ workflowId \in DOMAIN service \ {LegacyId}
    /\ \E i \in InFlight("save") : pending[i].body.id = NullId

----------------------------------------------------------------------------
\* The ids, types and positions of the nodes of a graph and of a record, and
\* the endpoints of the edges of either.
NodeFacts(ns) == [k \in DOMAIN ns |-> <<ns[k].id, ns[k].data.nodeType, ns[k].position>>]
RecordNodeFacts(r) == [k \in DOMAIN r.nodes |-> <<r.nodes[k].id, r.nodes[k].type, r.nodes[k].position>>]
Endpoints(es) == {<<es[k].source, es[k].target>> : k \in DOMAIN es}
RecordEndpoints(r) ==
    {<<r.connections[k].source_node, r.connections[k].target_node>> : k \in DOMAIN r.connections}

\* The graph ns, es and the record r agree in all of these.
SameGraph(ns, es, r) ==
    /\ NodeFacts(ns) = RecordNodeFacts(r)
    /\ Endpoints(es) = RecordEndpoints(r)

\* The graph loadWorkflow makes of the record r.
Loaded(r) ==
    [nodes |-> [k \in DOMAIN r.nodes |-> LoadNode(r.nodes[k])],
     edges |-> [k \in DOMAIN r.connections |-> LoadEdge(r.connections[k])]]

\* C15: the graph loaded from what saveWorkflow sends of a graph has the
\* node ids, types and positions and the edge endpoints of that graph: the
\* body sent agrees with the graph, the record stored is the body, and the
\* graph loaded agrees with the record.
RoundTripKeepsGraph ==
    /\ [](/\ SameGraph(nodes, edges, WorkflowBody)
          /\ SameGraph(Loaded(WorkflowBody).nodes, Loaded(WorkflowBody).edges, WorkflowBody)
          /\ NodeFacts(Loaded(WorkflowBody).nodes) = NodeFacts(nodes)
          /\ Endpoints(Loaded(WorkflowBody).edges) = Endpoints(edges))
    /\ [][\A i \in DOMAIN pending :
            /\ SaveWorkflowResponse(i, "success")
               => /\ RecordNodeFacts(service'[workflowId']) = RecordNodeFacts(pending[i].body)
                  /\ RecordEndpoints(service'[workflowId']) = RecordEndpoints(pending[i].body)
            /\ LoadWorkflowResponse(i, "success")
               => SameGraph(nodes', edges', Fetch(pending[i].id))]_vars

\* A graph of two nodes and an edge is on the canvas as it was loaded from
\* its record, nothing selected and no message shown.
RoundTripKeepsGraphWitness ==
    /\ pending = <<>>
    /\ workflowId \in DOMAIN service \ {LegacyId}
    /\ nodes = Loaded(Fetch(workflowId)).nodes
    /\ edges = Loaded(Fetch(workflowId)).edges
    /\ Len(nodes) = 2
    /\ Len(edges) = 1
    /\ selectedNode = Null
    /\ connectionError = Null

----------------------------------------------------------------------------
\* C16: a successful load leaves on the canvas the nodes and the edges of the
\* loaded workflow and nothing else, makes workflowId the loaded id and
\* clears the selection and the execution result.
LoadReplacesGraph ==
    [][\A i \in DOMAIN pending :
          LoadWorkflowResponse(i, "success")
          => LET r == Fetch(pending[i].id)
             IN  /\ SameGraph(nodes', edges', r)
                 /\ Len(edges') = Len(r.connections)
                 /\ workflowId' = pending[i].id
                 /\ selectedNode' = Null
                 /\ executionResult' = Null]_vars

\* The canvas shows the stored workflow, which has no input_file node, while
\* the message of an attempt rejected at an input_file node is still shown:
\* the graph the attempt was made on has been replaced by the loaded one.
LoadReplacesGraphWitness ==
    /\ pending = <<>>
    /\ workflowId = LegacyId
    /\ SameGraph(nodes, edges, Fetch(LegacyId))
    /\ Len(edges) = Len(Fetch(LegacyId).connections)
    /\ connectionError = ErrNoInput(DefLabel("input_file"))
    /\ selectedNode = Null
    /\ executionResult = Null

----------------------------------------------------------------------------
\* C17: clearCanvas() changes nothing when the canvas has a node and the user
\* declines; otherwise it leaves no node, no edge, no workflowId, no
\* selection, no execution result and no uploaded file.
ClearResetsOrKeeps ==
    [][\A confirmed \in BOOLEAN :
          ClearCanvas(confirmed)
          => IF Len(nodes) >= 1 /\ ~confirmed
             THEN UNCHANGED vars
             ELSE /\ nodes' = <<>>
                  /\ edges' = <<>>
                  /\ workflowId' = NullId
                  /\ selectedNode' = Null
                  /\ executionResult' = Null
                  /\ uploadedFiles' = 0]_vars

\* The canvas has been cleared while an execution was in flight: the request
\* was sent with a workflow id and files, neither of which is left, and the
\* message of an attempt rejected at an input_file node is still shown
\* though no node is.
ClearResetsOrKeepsWitness ==
    /\ isExecuting
    /\ InFlight("execute") # {}
    /\ nodes = <<>>
    /\ edges = <<>>
    /\ workflowId = NullId
    /\ uploadedFiles = 0
    /\ selectedNode = Null
    /\ executionResult = Null
    /\ connectionError = ErrNoInput(DefLabel("input_file"))

----------------------------------------------------------------------------
\* C18: in every reachable state no two nodes have the same id, two nodes of
\* one type dropped at the same clock value included.
UniqueNodeIds ==
    \A i, j \in DOMAIN nodes : nodes[i].id = nodes[j].id => i = j

\* Two nodes with one id are on the canvas and one of them is selected:
\* deleteSelectedNode, which goes by the id, would remove both.
SharedIdSelected ==
    /\ selectedNode # Null
    /\ \E i, j \in DOMAIN nodes :
          /\ i # j
          /\ nodes[i].id = nodes[j].id
          /\ nodes[i].id = selectedNode.id

----------------------------------------------------------------------------
\* A step of autoArrangeNodes that moves a node.  The first conjuncts tell
\* the other steps from it at once.
ArrangeStep ==
    /\ nodes' # nodes
    /\ Len(nodes') = Len(nodes)
    /\ edges' = edges
    /\ AutoArrangeNodes

\* The level autoArrangeNodes gives the node with this id in the graph
\* (ns, es), counted from 0.
LevelIn(ns, es, id) ==
    LET levels == ArrangeLevelsOf(ns, es)
    IN  CHOOSE l \in 0..(Len(levels) - 1) : id \in Range(levels[l + 1])

\* C19: autoArrangeNodes run on the graph it has just arranged gives every
\* node the level and the x (and the whole position) of the first run.
ArrangeIsIdempotent ==
    [][ArrangeStep
        => \A k \in DOMAIN nodes :
              /\ LevelIn(nodes', edges', nodes[k].id) = LevelIn(nodes, edges, nodes[k].id)
              /\ nodes'[k].position.x
                    = START_X + LevelIn(nodes, edges, nodes[k].id) * HORIZONTAL_GAP
              /\ ArrangedPositionIn(nodes', edges', nodes'[k]) = nodes'[k].position]_vars

\* Three nodes in a chain of two edges stand at the places autoArrangeNodes
\* gives them, in three levels.
ArrangeIsIdempotentWitness ==
    /\ Len(nodes) = 3
    /\ Len(edges) = 2
    /\ Len(ArrangeLevels) = 3
    /\ \A k \in DOMAIN nodes : nodes[k].position = ArrangedPosition(nodes[k])

----------------------------------------------------------------------------
\* The outcome of the checks made in the order: both nodes exist, source
\* equals target, source may output, target may receive, the target's
\* incoming edges against its maximum, an edge of the same endpoints.
FirstFailureWithSelfSecond(source, target) ==
    LET sourceNode == FindNode(source)
        targetNode == FindNode(target)
    IN  IF sourceNode = Null \/ targetNode = Null THEN Invalid(ErrNotFound)
        ELSE IF source = target THEN Invalid(ErrSelf)
        ELSE IF ~MayOutput(TypeOf(source)) THEN Invalid(ErrNoOutput(sourceNode.data.label))
        ELSE IF ~MayReceive(TypeOf(target)) THEN Invalid(ErrNoInput(targetNode.data.label))
        ELSE IF ~HasRoom(TypeOf(target), target)
        THEN IF TypeOf(target) = "ai_compare"
             THEN Invalid(ErrAiCompare(InputCount(target)))
             ELSE Invalid(ErrMaxInputs(targetNode.data.label,
                                       connectionRules[TypeOf(target)].maxInputs))
        ELSE IF EdgesBetween(source, target) # {} THEN Invalid(ErrDuplicate)
        ELSE Valid

\* C20: validateConnection reports the first check that fails in the order
\* nodes exist, self-connection, source may output, target may receive,
\* maximum of inputs, duplicate; a self-connection is reported as one.
ChecksInStatedOrder ==
    /\ [](\A attempt \in Attempts :
            validateConnection(attempt[1], attempt[2])
               = FirstFailureWithSelfSecond(attempt[1], attempt[2]))
    /\ [](\A a \in NodeIds : validateConnection(a, a) = Invalid(ErrSelf))
    /\ [][\A a \in NodeIds : OnConnect(a, a) => connectionError' = ErrSelf]_vars

\* The one node of the canvas came from an uploaded file and has been
\* connected to itself: the message says that it cannot receive input.
SelfReportedAsNoInput ==
    /\ Len(nodes) = 1
    /\ nodes[1].data.label = FileNames[1]
    /\ edges = <<>>
    /\ connectionError = ErrNoInput(FileNames[1])

----------------------------------------------------------------------------
\* The roots: the nodes of an input_ type or without an incoming edge.
Roots ==
    {nodes[i].id : i \in {j \in DOMAIN nodes :
        \/ StartsWithInput(nodes[j].data.nodeType)
        \/ \A k \in DOMAIN edges : edges[k].target # nodes[j].id}}

\* The ids that d edges or fewer lead to from a root.
RECURSIVE Within(_)
Within(d) ==
    IF d = 0 THEN Roots
    ELSE LET near == Within(d - 1)
         IN  near \cup {edges[k].target : k \in {j \in DOMAIN edges : edges[j].source \in near}}

Reached(id) == id \in Within(Len(nodes))

\* The number of edges of a shortest path from a root to a reached node.
Distance(id) ==
    CHOOSE d \in 0..Len(nodes) : id \in Within(d) /\ (d = 0 \/ id \notin Within(d - 1))

\* The places <<level, index>> at which the levels hold the id.
PlacesOf(id) ==
    LET levels == ArrangeLevels
    IN  {place \in (DOMAIN levels) \X (1..(Len(nodes) + Len(edges))) :
            /\ place[2] \in DOMAIN levels[place[1]]
            /\ levels[place[1]][place[2]] = id}

\* The nodes form the chain A -> B -> C, in this order, with A of an input_
\* type.
IsInputChain ==
    /\ Len(nodes) = 3
    /\ StartsWithInput(nodes[1].data.nodeType)
    /\ {<<edges[k].source, edges[k].target>> : k \in DOMAIN edges}
          = {<<nodes[1].id, nodes[2].id>>, <<nodes[2].id, nodes[3].id>>}

\* C21: autoArrangeNodes puts every node in exactly one level; level 0 is
\* the set of roots, the level of a reached node is its distance from the
\* nearest root, and x = 100 + 250 * level; the chain A -> B -> C from an
\* input A gets the levels [A], [B], [C], increasing x and one y.
LevelsAreDistances ==
    /\ [](\A id \in NodeIds :
            /\ Cardinality(PlacesOf(id)) = 1
            /\ Reached(id) => LevelIn(nodes, edges, id) = Distance(id))
    /\ [](Roots # {} => Range(ArrangeLevels[1]) = Roots)
    /\ [](IsInputChain =>
            /\ ArrangeLevels = <<<<nodes[1].id>>, <<nodes[2].id>>, <<nodes[3].id>>>>
            /\ ArrangedPosition(nodes[1]).x < ArrangedPosition(nodes[2]).x
            /\ ArrangedPosition(nodes[2]).x < ArrangedPosition(nodes[3]).x
            /\ ArrangedPosition(nodes[1]).y = ArrangedPosition(nodes[2]).y
            /\ ArrangedPosition(nodes[2]).y = ArrangedPosition(nodes[3]).y)
    /\ [][ArrangeStep =>
            \A k \in DOMAIN nodes :
                nodes'[k].position.x = 100 + 250 * LevelIn(nodes, edges, nodes[k].id)]_vars

\* The chain from an input node has been arranged: its nodes stand at
\* x = 100, 350 and 600 and at one y.
LevelsAreDistancesWitness ==
    /\ IsInputChain
    /\ \A k \in 1..3 : nodes[k].position = [x |-> 100 + 250 * (k - 1), y |-> 100]

----------------------------------------------------------------------------
\* The sum of the y that autoArrangeNodes gives the nodes of the level at
\* place l of the levels, from the k-th node of the level on.
RECURSIVE SumOfLevelY(_, _)
SumOfLevelY(l, k) ==
    IF k > Len(ArrangeLevels[l]) THEN 0
    ELSE NewPosition(ArrangeLevels[l], l - 1, k - 1).y + SumOfLevelY(l, k + 1)

\* C22: within a level autoArrangeNodes sets the nodes 120 apart, and the
\* mean y of the nodes of a level is the same for every level.
LevelsShareBaseline ==
    /\ [](\A l \in DOMAIN ArrangeLevels : \A k \in 2..Len(ArrangeLevels[l]) :
            NewPosition(ArrangeLevels[l], l - 1, k - 1).y
               = NewPosition(ArrangeLevels[l], l - 1, k - 2).y + 120)
    /\ [](\A l, m \in DOMAIN ArrangeLevels :
            SumOfLevelY(l, 1) * Len(ArrangeLevels[m])
               = SumOfLevelY(m, 1) * Len(ArrangeLevels[l]))

\* Two roots lead to one node and the graph has been arranged: the roots
\* stand at y = 100 and 220, mean 160, and their target at y = 100.
LevelsShareTop ==
    /\ Len(nodes) = 3
    /\ Len(edges) = 2
    /\ Len(ArrangeLevels) = 2
    /\ Len(ArrangeLevels[1]) = 2
    /\ \A k \in DOMAIN nodes : nodes[k].position = ArrangedPosition(nodes[k])
    /\ {nodes[k].position : k \in DOMAIN nodes}
          = {[x |-> 100, y |-> 100], [x |-> 100, y |-> 220], [x |-> 350, y |-> 100]}

----------------------------------------------------------------------------
\* The places in the node list of the nodes that no path from a root reaches.
Unreached == {k \in DOMAIN nodes : ~Reached(nodes[k].id)}

\* C23: autoArrangeNodes appends every node that the traversal has not
\* reached as a level of its own after the levels of the traversal, in the
\* order of the node list: each gets an x of its own, larger than the x of
\* every reached node.
UnreachedGetOwnLevels ==
    /\ [](\A k \in Unreached :
            /\ ArrangeLevels[LevelIn(nodes, edges, nodes[k].id) + 1] = <<nodes[k].id>>
            /\ \A j \in DOMAIN nodes :
                  (j \notin Unreached \/ j < k)
                     => LevelIn(nodes, edges, nodes[j].id) < LevelIn(nodes, edges, nodes[k].id))
    /\ [][ArrangeStep =>
            \A k \in Unreached : \A j \in DOMAIN nodes \ {k} :
                /\ nodes'[j].position.x # nodes'[k].position.x
                /\ j \notin Unreached => nodes'[j].position.x < nodes'[k].position.x]_vars

\* Two nodes that lead to each other and a root have been arranged: the
\* root stands at x = 100, the two at x = 350 and x = 600 in the order of
\* the node list.
UnreachedGetOwnLevelsWitness ==
    /\ Cardinality(Unreached) = 2
    /\ Len(nodes) = 3
    /\ \A k \in DOMAIN nodes : nodes[k].position = ArrangedPosition(nodes[k])
    /\ \A k \in Unreached : nodes[k].position.x > 100
    /\ \A j, k \in Unreached : j < k => nodes[j].position.x < nodes[k].position.x

----------------------------------------------------------------------------
\* The node is what it was but for its y (for its x).
SameButY(before, after) == after = [before EXCEPT !.position.y = after.position.y]
SameButX(before, after) == after = [before EXCEPT !.position.x = after.position.x]

\* C24: with two or more nodes alignNodesHorizontally sets every y to the
\* mean of all y and alignNodesVertically every x to the mean of all x, and
\* nothing else of the nodes and no edge changes; with fewer than two nodes
\* neither changes anything.
AlignSetsMean ==
    /\ [][AlignNodesHorizontally =>
            /\ UNCHANGED edges
            /\ Len(nodes') = Len(nodes)
            /\ Len(nodes) < 2 => nodes' = nodes
            /\ Len(nodes) >= 2 =>
                  \A k \in DOMAIN nodes :
                      /\ SameButY(nodes[k], nodes'[k])
                      /\ nodes'[k].position.y * Len(nodes)
                            = SumOf([i \in DOMAIN nodes |-> nodes[i].position.y])]_vars
    /\ [][AlignNodesVertically =>
            /\ UNCHANGED edges
            /\ Len(nodes') = Len(nodes)
            /\ Len(nodes) < 2 => nodes' = nodes
            /\ Len(nodes) >= 2 =>
                  \A k \in DOMAIN nodes :
                      /\ SameButX(nodes[k], nodes'[k])
                      /\ nodes'[k].position.x * Len(nodes)
                            = SumOf([i \in DOMAIN nodes |-> nodes[i].position.x])]_vars

\* Three connected nodes dropped at y = 4, 4 and 28 stand at y = 12 and at
\* the x of their drops.
AlignSetsMeanWitness ==
    /\ Len(nodes) = 3
    /\ edges # <<>>
    /\ \A k \in DOMAIN nodes : nodes[k].position.y = 12
    /\ \E j, k \in DOMAIN nodes : nodes[j].position.x = 4 /\ nodes[k].position.x = 16

----------------------------------------------------------------------------
\* C25: the response of an execute request sets isExecuting to false on
\* the success path, the failure path and the transport error; nothing else
\* does, so isExecuting is true as long as the request is pending; with
\* every request answered, every execution ends.
ExecutionEnds ==
    /\ [][\A outcome \in Outcomes :
            (\E i \in DOMAIN pending : ExecuteWorkflowResponse(i, outcome))
               => ~isExecuting' /\ InFlightNext("execute") = {}]_vars
    /\ [][(isExecuting /\ ~isExecuting') => ExecuteResponse]_vars
    /\ [](InFlight("execute") # {} => isExecuting)
    /\ (isExecuting ~> ~isExecuting)

\* An execution has been answered with a failure: its result is stored,
\* isExecuting is false and no execute request is pending.
ExecutionEndsWitness ==
    /\ executionResult = [kind |-> "result", success |-> FALSE]
    /\ ~isExecuting
    /\ InFlight("execute") = {}

----------------------------------------------------------------------------
\* C26: clear sets workflowId to null and a successful load sets it to the
\* id loaded; the response of a save that was sent under another workflowId
\* than the present one (a clear or a load has come between) leaves
\* workflowId as it is, so the canvas is never empty under the id of a
\* record that holds nodes while nothing is pending.
LateSaveKeepsWorkflowId ==
    /\ [][ClearCanvas(TRUE) => workflowId' = NullId]_vars
    /\ [][\A i \in DOMAIN pending :
            LoadWorkflowResponse(i, "success") => workflowId' = pending[i].id]_vars
    /\ [][\A i \in DOMAIN pending :
            (SaveWorkflowResponse(i, "success") /\ pending[i].body.id # workflowId)
               => workflowId' = workflowId]_vars

\* A graph was saved and the canvas cleared before the response came: the
\* canvas is empty and nothing is pending, and workflowId names the record
\* of the graph that was cleared.
ClearedCanvasUnderSavedId ==
    /\ nodes = <<>>
    /\ pending = <<>>
    /\ workflowId \in DOMAIN service \ {LegacyId}
    /\ service[workflowId].nodes # <<>>

----------------------------------------------------------------------------
\* C27: clear and a successful load set the execution result to null; the
\* response of an execution that was started under another workflowId than
\* the present one (a clear or a load has come between) stores no result,
\* so a result is only ever shown with the workflow that was executed.
LateResultDropped ==
    /\ [][ClearCanvas(TRUE) => executionResult' = Null]_vars
    /\ [][\A i \in DOMAIN pending :
            LoadWorkflowResponse(i, "success") => executionResult' = Null]_vars
    /\ [][\A i \in DOMAIN pending : \A outcome \in Outcomes :
            (ExecuteWorkflowResponse(i, outcome) /\ pending[i].id # workflowId)
               => executionResult' = Null]_vars
    /\ [](executionResult # Null => workflowId # NullId)

\* A workflow was executed and the canvas cleared before the response came:
\* the canvas is empty, no workflow is on screen and no files are uploaded,
\* and a result is shown.
ResultOnClearedCanvas ==
    /\ nodes = <<>>
    /\ workflowId = NullId
    /\ uploadedFiles = 0
    /\ executionResult # Null

----------------------------------------------------------------------------
\* C28: the source and the target of every edge are ids of nodes of the
\* graph, in every state reached by dropping, connecting, deleting,
\* arranging, clearing, and saving and loading graphs built this way.
NoDanglingEdge ==
    \A i \in DOMAIN edges : edges[i].source \in NodeIds /\ edges[i].target \in NodeIds

\* A graph was saved with an edge, and one of its two nodes has been
\* deleted since: the edge has gone with it.
NoDanglingEdgeWitness ==
    /\ Len(nodes) = 1
    /\ edges = <<>>
    /\ workflowId \in DOMAIN service
    /\ Len(service[workflowId].nodes) = 2
    /\ service[workflowId].connections # <<>>

----------------------------------------------------------------------------
\* The nodes of the graph with the id of the selected node.
SelectedInGraph == {k \in DOMAIN nodes : nodes[k].id = selectedNode.id}

\* C29: while a node is selected, the label and the params of the snapshot
\* selectedNode that the panel shows are those of the node of its id in the
\* graph, whatever labels and params have been edited through the panel.
PanelShowsNode ==
    selectedNode # Null =>
        \A k \in SelectedInGraph :
            /\ selectedNode.data.label = nodes[k].data.label
            /\ selectedNode.data.params = nodes[k].data.params

\* The label of the selected node has been typed over: the graph has the
\* new label and the snapshot the label the node had when it was clicked.
PanelShowsOldLabel ==
    /\ selectedNode # Null
    /\ \E k \in SelectedInGraph :
          /\ nodes[k].data.label = "contract"
          /\ selectedNode.data.label = DefLabel(nodes[k].data.nodeType)
          /\ selectedNode.data.params = nodes[k].data.params

----------------------------------------------------------------------------
\* The number of ids in the first l of the levels.
RECURSIVE IdsInLevels(_, _)
IdsInLevels(levels, l) ==
    IF l = 0 THEN 0 ELSE Len(levels[l]) + IdsInLevels(levels, l - 1)

\* The graph has a cycle that a root leads to.
RootLeadsToCycle ==
    \E k \in DOMAIN edges :
        /\ Reached(edges[k].source)
        /\ Distance(edges[k].target) <= Distance(edges[k].source)
        /\ edges[k].target # edges[k].source

\* C30: autoArrangeNodes ends on every graph, with cycles and without a
\* root: the loop puts every node it visits into the levels once and makes
\* no more levels than there are nodes, and the operation gives every node
\* a place in the levels and the position of that place.
ArrangeEnds ==
    /\ [](LET traversal == Traverse(edges, InputNodeIds, {}, <<>>)
          IN  /\ traversal.visited \subseteq NodeIds
              /\ Len(traversal.levels) <= Len(nodes)
              /\ IdsInLevels(traversal.levels, Len(traversal.levels))
                    = Cardinality(traversal.visited))
    /\ [](IdsInLevels(ArrangeLevels, Len(ArrangeLevels)) = Len(nodes))
    /\ [][ArrangeStep =>
            LET levels == ArrangeLevels
            IN  \A k \in DOMAIN nodes :
                    \E l \in DOMAIN levels : \E j \in DOMAIN levels[l] :
                        /\ levels[l][j] = nodes[k].id
                        /\ nodes'[k].position = NewPosition(levels[l], l - 1, j - 1)]_vars

\* A graph in which a root leads into a cycle has been arranged.
ArrangeEndsWitness ==
    /\ RootLeadsToCycle
    /\ Len(edges) = 3
    /\ \A k \in DOMAIN nodes : nodes[k].position = ArrangedPosition(nodes[k])

\* A graph of two nodes that lead to each other, without a root, has been
\* arranged.
ArrangeEndsWithoutRoot ==
    /\ Roots = {}
    /\ Len(nodes) = 2
    /\ {nodes[k].position : k \in DOMAIN nodes} = {[x |-> 100, y |-> 100], [x |-> 350, y |-> 100]}

====
